---- MODULE Spec2Model ----
(***************************************************************************)
(* A model of coturn_exporter: the histogauge package (a live population   *)
(* histogram kept in a prometheus GaugeVec) and the watchTraffic loop that *)
(* turns coturn's redis pub/sub messages into counters, an allocation      *)
(* gauge and four rate histogauges.                                        *)
(***************************************************************************)
EXTENDS Integers, Sequences, FiniteSets, TLC

VARIABLES
    histogauges,      \* the four Histogauge values: name -> [gaugeVec, buckets]
    allocations,      \* var allocations map[string]*Allocation
    allocationGauge,  \* allocationGauge GaugeVec: labels -> value
    counters,         \* the four CounterVecs: name -> (labels -> value)
    clock,            \* the latest reading time.Now() has returned
    last,             \* the message (or direct histogauge call) handled last
    pre,              \* the program state before that message was handled
    calls,            \* the histogauge calls made while handling it
    lives,            \* per allocation name: the traffic samples of this life
    held,             \* per gauge and label-set: values added and not removed
    flags,            \* what has happened so far (see Flags0)
    steps,            \* number of messages / calls handled so far
    totals,           \* per realm and field: the sum over the traffic messages
    proc              \* main's position, the keys it has yet to scan and the
                      \* number of goroutines running watchTraffic

vars == <<histogauges, allocations, allocationGauge, counters, clock, last,
          pre, calls, lives, held, flags, steps, totals, proc>>

-----------------------------------------------------------------------------
(* Bounds of the model.                                                    *)

\* messages handled by watchTraffic in one behaviour
MaxEvents == 4
\* largest reading of the clock, in seconds
MaxClock == 2
\* direct histogauge calls in one behaviour of SpecHG
MaxOps == 3

-----------------------------------------------------------------------------
(* float64 values.  A value is n/d with d >= 0 in lowest terms: d > 0 is a *)
(* finite number, 1/0 is +Inf, -1/0 is -Inf and 0/0 is NaN.  Comparisons   *)
(* follow IEEE 754: every comparison with NaN is false.  The quotients the *)
(* model forms have small numerators and denominators, so two of them, or  *)
(* one of them and a threshold, compare as float64 exactly as they compare *)
(* as rationals (rounding is monotone and far finer than their distance).  *)

RECURSIVE GCD(_, _)
GCD(a, b) == IF b = 0 THEN a ELSE GCD(b, a % b)

Abs(x) == IF x < 0 THEN -x ELSE x

Float(n, d) ==
    LET g == GCD(Abs(n), d)
    IN  IF g = 0 THEN [n |-> 0, d |-> 0] ELSE [n |-> n \div g, d |-> d \div g]

FloatOf(i) == [n |-> i, d |-> 1]
PosInf == [n |-> 1, d |-> 0]
NaN == [n |-> 0, d |-> 0]

IsNaN(x) == x.n = 0 /\ x.d = 0

\* x <= y, x < y, x > y, x == y on float64
FLeq(x, y) == ~IsNaN(x) /\ ~IsNaN(y) /\ x.n * y.d <= y.n * x.d
FLt(x, y) == ~IsNaN(x) /\ ~IsNaN(y) /\ x.n * y.d < y.n * x.d
FGt(x, y) == FLt(y, x)
FEq(x, y) == ~IsNaN(x) /\ ~IsNaN(y) /\ x.n * y.d = y.n * x.d

\* a mutant of FDiv: a rate over zero seconds is taken to be 0
FDivGuarded(x, elapsed) == IF elapsed = 0 THEN FloatOf(0) ELSE Float(x, elapsed)

\* x / elapsed for a non-negative integral x and a non-negative integral
\* number of seconds: x/0 is +Inf for x > 0 and NaN for x = 0
FDiv(x, elapsed) == Float(x, elapsed)

-----------------------------------------------------------------------------
(* fmt.Sprintf("%g", v) for a positive integral v: the shortest decimal    *)
(* digits, in %e form when the decimal exponent is 6 or more.              *)

Digit == <<"0", "1", "2", "3", "4", "5", "6", "7", "8", "9">>

RECURSIVE Decimal(_)
Decimal(i) ==
    IF i < 10 THEN Digit[i + 1] ELSE Decimal(i \div 10) \o Digit[(i % 10) + 1]

RECURSIVE NumDigits(_)
NumDigits(i) == IF i < 10 THEN 1 ELSE 1 + NumDigits(i \div 10)

RECURSIVE StripZeros(_)
StripZeros(i) == IF i > 0 /\ i % 10 = 0 THEN StripZeros(i \div 10) ELSE i

RECURSIVE DropFirst(_)
\* the digits of i after its leading digit
DropFirst(i) == IF i < 10 THEN "" ELSE DropFirst(i \div 10) \o Digit[(i % 10) + 1]

RECURSIVE LeadDigit(_)
LeadDigit(i) == IF i < 10 THEN i ELSE LeadDigit(i \div 10)

FormatG(v) ==
    LET exp == NumDigits(v) - 1
        mant == StripZeros(v)
    IN  IF exp < 6
        THEN Decimal(v)
        ELSE Digit[LeadDigit(mant) + 1]
             \o (IF mant < 10 THEN "" ELSE "." \o DropFirst(mant))
             \o "e+" \o (IF exp < 10 THEN "0" ELSE "") \o Decimal(exp)

-----------------------------------------------------------------------------
(* prometheus.LinearBuckets / ExponentialBuckets and the bucket lists.     *)

RECURSIVE Pow(_, _)
Pow(b, e) == IF e = 0 THEN 1 ELSE b * Pow(b, e - 1)

LinearBuckets(start, width, count) ==
    [i \in 1..count |-> start + (i - 1) * width]

ExponentialBuckets(start, factor, count) ==
    [i \in 1..count |-> start * Pow(factor, i - 1)]

byteRateBuckets == ExponentialBuckets(16384, 2, 8)
packetRateBuckets == LinearBuckets(50, 50, 8)

Range(seq) == {seq[i] : i \in 1..Len(seq)}

\* FormatG tabulated over the thresholds of the program
FormatGTable ==
    [b \in Range(byteRateBuckets) \cup Range(packetRateBuckets) |-> FormatG(b)]

\* bucketName: fmt.Sprintf("%g", v)
bucketName(v) == FormatGTable[v]

-----------------------------------------------------------------------------
(* GaugeVec / CounterVec: a map from label-sets to values.  With creates   *)
(* the series at 0 when it does not exist yet.                             *)

With(vec, labels) ==
    IF labels \in DOMAIN vec THEN vec ELSE vec @@ (labels :> 0)

Inc(vec, labels) == [With(vec, labels) EXCEPT ![labels] = @ + 1]
Dec(vec, labels) == [With(vec, labels) EXCEPT ![labels] = @ - 1]
CounterAdd(vec, labels, x) == [With(vec, labels) EXCEPT ![labels] = @ + x]

EmptyVec == [x \in {} |-> 0]

\* labels with the "le" label set
WithLe(labels, le) == [realm |-> labels.realm, le |-> le]

NewHistogauge(buckets) == [gaugeVec |-> EmptyVec, buckets |-> buckets]

-----------------------------------------------------------------------------
(* histogauge.Add, Remove, Replace: each returns the histogauge after the  *)
(* call.                                                                   *)

RECURSIVE AddLoop(_, _, _, _, _)
AddLoop(vec, buckets, i, labels, v) ==
    IF i > Len(buckets) THEN vec
    ELSE LET newLabels == WithLe(labels, bucketName(buckets[i]))
             gauge == With(vec, newLabels)
         IN  AddLoop(IF FLeq(v, FloatOf(buckets[i]))
                     THEN Inc(gauge, newLabels) ELSE gauge,
                     buckets, i + 1, labels, v)

\* a mutant of Add: the bucket test is v < bucket
RECURSIVE AddLoopStrict(_, _, _, _, _)
AddLoopStrict(vec, buckets, i, labels, v) ==
    IF i > Len(buckets) THEN vec
    ELSE LET newLabels == WithLe(labels, bucketName(buckets[i]))
             gauge == With(vec, newLabels)
         IN  AddLoopStrict(IF FLt(v, FloatOf(buckets[i]))
                           THEN Inc(gauge, newLabels) ELSE gauge,
                           buckets, i + 1, labels, v)

AddStrict(h, labels, v) ==
    [h EXCEPT !.gaugeVec =
        Inc(AddLoopStrict(h.gaugeVec, h.buckets, 1, labels, v),
            WithLe(labels, "+Inf"))]

Add(h, labels, v) ==
    [h EXCEPT !.gaugeVec =
        Inc(AddLoop(h.gaugeVec, h.buckets, 1, labels, v),
            WithLe(labels, "+Inf"))]

RECURSIVE RemoveLoop(_, _, _, _, _)
RemoveLoop(vec, buckets, i, labels, v) ==
    IF i > Len(buckets) THEN vec
    ELSE LET newLabels == WithLe(labels, bucketName(buckets[i]))
             gauge == With(vec, newLabels)
         IN  RemoveLoop(IF FLeq(v, FloatOf(buckets[i]))
                        THEN Dec(gauge, newLabels) ELSE gauge,
                        buckets, i + 1, labels, v)

\* a mutant of Remove: the overflow series is left alone
RemoveKeepsOverflow(h, labels, v) ==
    [h EXCEPT !.gaugeVec = RemoveLoop(h.gaugeVec, h.buckets, 1, labels, v)]

\* a mutant of Remove: only the overflow series is decremented
RemoveOverflowOnly(h, labels, v) ==
    [h EXCEPT !.gaugeVec = Dec(h.gaugeVec, WithLe(labels, "+Inf"))]

Remove(h, labels, v) ==
    [h EXCEPT !.gaugeVec =
        Dec(RemoveLoop(h.gaugeVec, h.buckets, 1, labels, v),
            WithLe(labels, "+Inf"))]

RECURSIVE ReplaceLoop(_, _, _, _, _, _)
ReplaceLoop(vec, buckets, i, labels, v, o) ==
    IF i > Len(buckets) THEN vec
    ELSE LET newLabels == WithLe(labels, bucketName(buckets[i]))
             bucket == FloatOf(buckets[i])
         IN  ReplaceLoop(
                 IF FGt(v, o)
                 THEN IF FLeq(o, bucket) /\ FLt(bucket, v)
                      THEN Dec(vec, newLabels) ELSE vec
                 ELSE IF FLeq(v, bucket) /\ FLt(bucket, o)
                      THEN Inc(vec, newLabels) ELSE vec,
                 buckets, i + 1, labels, v, o)

\* a mutant of Replace: no early return, and both range tests are closed
\* on the right (bucket <= v, bucket <= o)
RECURSIVE ReplaceLoopClosed(_, _, _, _, _, _)
ReplaceLoopClosed(vec, buckets, i, labels, v, o) ==
    IF i > Len(buckets) THEN vec
    ELSE LET newLabels == WithLe(labels, bucketName(buckets[i]))
             bucket == FloatOf(buckets[i])
         IN  ReplaceLoopClosed(
                 IF FGt(v, o)
                 THEN IF FLeq(o, bucket) /\ FLeq(bucket, v)
                      THEN Dec(vec, newLabels) ELSE vec
                 ELSE IF FLeq(v, bucket) /\ FLeq(bucket, o)
                      THEN Inc(vec, newLabels) ELSE vec,
                 buckets, i + 1, labels, v, o)

ReplaceClosed(h, labels, v, o) ==
    [h EXCEPT !.gaugeVec =
        ReplaceLoopClosed(h.gaugeVec, h.buckets, 1, labels, v, o)]

\* a mutant of Replace: the new and the old value are taken in the other order
ReplaceSwapped(h, labels, v, o) ==
    IF FEq(v, o) THEN h
    ELSE [h EXCEPT !.gaugeVec =
            ReplaceLoop(h.gaugeVec, h.buckets, 1, labels, o, v)]

Replace(h, labels, v, o) ==
    IF FEq(v, o) THEN h
    ELSE [h EXCEPT !.gaugeVec =
            ReplaceLoop(h.gaugeVec, h.buckets, 1, labels, v, o)]

-----------------------------------------------------------------------------
(* The package-level state of the exporter.                                *)

metricLabels == {"realm"}

\* the four Histogauge variables and the TrafficMetric field each one tracks
Gauges ==
    {"receivedPacketRateHistogauge", "receivedByteRateHistogauge",
     "sentPacketRateHistogauge", "sentByteRateHistogauge"}

GaugeField(g) ==
    CASE g = "receivedPacketRateHistogauge" -> "rcvp"
      [] g = "receivedByteRateHistogauge" -> "rcvb"
      [] g = "sentPacketRateHistogauge" -> "sentp"
      [] g = "sentByteRateHistogauge" -> "sentb"

GaugeBuckets(g) ==
    IF g \in {"receivedPacketRateHistogauge", "sentPacketRateHistogauge"}
    THEN packetRateBuckets ELSE byteRateBuckets

\* the four CounterVec variables, named by the field each one accumulates
Counters == {"rcvp", "rcvb", "sentp", "sentb"}

\* the state a message handler reads and writes, and the lives so far
Snapshot ==
    [histogauges |-> histogauges, allocations |-> allocations,
     allocationGauge |-> allocationGauge, counters |-> counters,
     lives |-> lives]

\* what has happened so far
Flags0 ==
    [inContract |-> TRUE,    \* every Remove/Replace named a held value
     nan |-> FALSE,          \* a NaN was passed to a histogauge
     zeroElapsed |-> FALSE]  \* a rate was computed over zero elapsed seconds

-----------------------------------------------------------------------------
(* Direct use of one histogauge (SpecHG): any sequence of Add, Remove and  *)
(* Replace calls, with held recording the values added and not removed.    *)
(* A Remove or Replace may name a value that is not held; that breaks the  *)
(* contract of the package, and the behaviour is not followed further.     *)

HGRealms == {"r1", "r2"}
HGLabels == {[realm |-> r] : r \in HGRealms}
HGGauge == "receivedPacketRateHistogauge"
\* 50 and 100 are thresholds, 120 lies between two, +Inf lies above all
HGValues == {FloatOf(50), FloatOf(100), FloatOf(120), PosInf, NaN}

Held0 == [l \in HGLabels |-> [v \in HGValues |-> 0]]

HGCall(kind, labels, v, o) ==
    [kind |-> kind, gauge |-> HGGauge, labels |-> labels, v |-> v, o |-> o]

HGAdd(labels, v) ==
    /\ steps < MaxOps /\ flags.inContract
    /\ histogauges' = [histogauges EXCEPT ![HGGauge] = Add(@, labels, v)]
    /\ held' = [held EXCEPT ![labels][v] = @ + 1]
    /\ flags' = [flags EXCEPT !.nan = @ \/ IsNaN(v)]
    /\ last' = HGCall("Add", labels, v, v)
    /\ pre' = Snapshot
    /\ steps' = steps + 1
    /\ UNCHANGED <<allocations, allocationGauge, counters, clock, calls, lives,
                   totals, proc>>

HGRemove(labels, v) ==
    /\ steps < MaxOps /\ flags.inContract
    /\ histogauges' = [histogauges EXCEPT ![HGGauge] = Remove(@, labels, v)]
    /\ held' = IF held[labels][v] > 0
               THEN [held EXCEPT ![labels][v] = @ - 1] ELSE held
    /\ flags' = [flags EXCEPT !.nan = @ \/ IsNaN(v),
                              !.inContract = @ /\ held[labels][v] > 0]
    /\ last' = HGCall("Remove", labels, v, v)
    /\ pre' = Snapshot
    /\ steps' = steps + 1
    /\ UNCHANGED <<allocations, allocationGauge, counters, clock, calls, lives,
                   totals, proc>>

HGReplace(labels, v, o) ==
    /\ steps < MaxOps /\ flags.inContract
    /\ histogauges' = [histogauges EXCEPT ![HGGauge] = Replace(@, labels, v, o)]
    /\ held' = IF held[labels][o] > 0
               THEN [held EXCEPT ![labels] =
                        [[@ EXCEPT ![o] = @ - 1] EXCEPT ![v] = @ + 1]]
               ELSE held
    /\ flags' = [flags EXCEPT !.nan = @ \/ IsNaN(v) \/ IsNaN(o),
                              !.inContract = @ /\ held[labels][o] > 0]
    /\ last' = HGCall("Replace", labels, v, o)
    /\ pre' = Snapshot
    /\ steps' = steps + 1
    /\ UNCHANGED <<allocations, allocationGauge, counters, clock, calls, lives,
                   totals, proc>>

NextHG ==
    \/ \E l \in HGLabels, v \in HGValues : HGAdd(l, v)
    \/ \E l \in HGLabels, v \in HGValues : HGRemove(l, v)
    \/ \E l \in HGLabels, v \in HGValues, o \in HGValues : HGReplace(l, v, o)

-----------------------------------------------------------------------------
(* Messages.  A channel name is modelled as its "/"-separated segments and *)
(* a payload as a record: form "metric" stands for a text that             *)
(* metricRegexp matches, with the four numbers it carries (ParseFloat of   *)
(* a short digit string is that integer); form "text" is any other text.   *)

RECURSIVE Join(_)
Join(segs) ==
    IF Len(segs) = 0 THEN ""
    ELSE IF Len(segs) = 1 THEN segs[1]
    ELSE segs[1] \o "/" \o Join(Tail(segs))

AllocationKey(realm, user, alloc) ==
    <<"turn", "realm", realm, "user", user, "allocation", alloc>>

AllocationKeys ==
    {AllocationKey("r1", "u1", "a1"), AllocationKey("r1", "u1", "a2"),
     AllocationKey("r2", "u2", "a1")}

Names == {Join(k) : k \in AllocationKeys}
Realms == {k[3] : k \in AllocationKeys}

MetricText(rcvp, rcvb, sentp, sentb) ==
    [form |-> "metric", text |-> "",
     rcvp |-> rcvp, rcvb |-> rcvb, sentp |-> sentp, sentb |-> sentb]

Text(s) ==
    [form |-> "text", text |-> s, rcvp |-> 0, rcvb |-> 0, sentp |-> 0, sentb |-> 0]

\* the traffic reports of the model: between them and the elapsed times
\* 0..MaxClock the rates fall on, between, below and above thresholds; over
\* zero seconds the first gives +Inf and NaN, the second only +Inf
Report1 == MetricText(60, 20000, 0, 0)
Report2 == MetricText(100, 40000, 50, 16384)

Message(channel, payload) == [Channel |-> channel, Payload |-> payload]

\* the messages of the model: every kind for the first allocation, traffic
\* and deletion for the second (same realm), traffic for the third (another
\* realm), and four messages that are skipped or ignored
Messages ==
    {Message(AllocationKey("r1", "u1", "a1") \o <<"traffic">>, Report1),
     Message(AllocationKey("r1", "u1", "a1") \o <<"traffic">>, Report2),
     Message(AllocationKey("r1", "u1", "a1") \o <<"status">>,
             Text("new lifetime=600")),
     Message(AllocationKey("r1", "u1", "a1") \o <<"status">>, Text("deleted")),
     Message(AllocationKey("r1", "u1", "a2") \o <<"traffic">>, Report2),
     Message(AllocationKey("r1", "u1", "a2") \o <<"status">>, Text("deleted")),
     Message(AllocationKey("r2", "u2", "a1") \o <<"traffic">>, Report1),
     Message(<<"turn", "realm", "r1", "allocation", "a1", "traffic">>, Report1),
     Message(AllocationKey("r1", "u1", "a1") \o <<"traffic">>, Text("garbage")),
     Message(AllocationKey("r1", "u1", "a1") \o <<"status">>,
             Text("refreshed lifetime=600")),
     Message(AllocationKey("r1", "u1", "a1") \o <<"total_traffic">>, Report1)}

\* the reports, messages and clock readings of the end-to-end scenario: one
\* allocation in realm r1 that reports 600 or 400 packets, one in another
\* realm, and readings 10 seconds apart
Packets600 == MetricText(600, 480000, 600, 480000)
Packets400 == MetricText(400, 320000, 400, 320000)

E2EMessages ==
    {Message(AllocationKey("r1", "u1", "a1") \o <<"traffic">>, Packets600),
     Message(AllocationKey("r1", "u1", "a1") \o <<"traffic">>, Packets400),
     Message(AllocationKey("r1", "u1", "a1") \o <<"status">>, Text("new")),
     Message(AllocationKey("r1", "u1", "a1") \o <<"status">>, Text("deleted")),
     Message(AllocationKey("r2", "u2", "a1") \o <<"traffic">>, Packets600),
     Message(AllocationKey("r2", "u2", "a1") \o <<"status">>, Text("deleted"))}

E2ETimes == {10 * t : t \in 0..MaxClock}

\* the keys client.Keys returns at startup: the status key of an allocation
\* and a key that the pattern of Keys matches but keyRegexp does not (its
\* realm is empty)
StartupKeys ==
    <<AllocationKey("r1", "u1", "a1") \o <<"status">>,
      <<"turn", "realm", "", "user", "u1", "allocation", "a1", "status">>>>

\* keyRegexp matches at segment i: turn/realm/R/user/U/allocation/A/REST
\* with R, U, A and REST not empty
KeyMatchesAt(key, i) ==
    /\ Len(key) >= i + 7
    /\ key[i] = "turn" /\ key[i + 1] = "realm" /\ key[i + 2] # ""
    /\ key[i + 3] = "user" /\ key[i + 4] # ""
    /\ key[i + 5] = "allocation" /\ key[i + 6] # ""
    /\ Join(SubSeq(key, i + 7, Len(key))) # ""

\* keyRegexp.FindStringSubmatch: the leftmost match of keyRegexp, or none
FindKeySubmatch(key) ==
    LET matches == {i \in 1..Len(key) : KeyMatchesAt(key, i)}
    IN  IF matches = {}
        THEN [err |-> TRUE, realm |-> "", allocationName |-> "", messageType |-> ""]
        ELSE LET i == CHOOSE j \in matches : \A k \in matches : j <= k
             IN  [err |-> FALSE,
                  realm |-> key[i + 2],
                  allocationName |-> Join(SubSeq(key, i, i + 6)),
                  messageType |-> Join(SubSeq(key, i + 7, Len(key)))]

\* FindKeySubmatch tabulated over the channels of the model
KeyTable ==
    [c \in {m.Channel : m \in Messages \cup E2EMessages}
            \cup Range(StartupKeys) |->
        FindKeySubmatch(c)]

\* parseKeyName: the realm, allocation name and message type of a channel
\* name, or an error
parseKeyName(key) == KeyTable[key]

TrafficMetric(rcvp, rcvb, sentp, sentb) ==
    [rcvp |-> rcvp, rcvb |-> rcvb, sentp |-> sentp, sentb |-> sentb]

\* parseTrafficMetric: the four numbers of a matching text, or an error
parseTrafficMetric(data) ==
    IF data.form # "metric"
    THEN [err |-> TRUE, metric |-> TrafficMetric(0, 0, 0, 0)]
    ELSE [err |-> FALSE,
          metric |-> TrafficMetric(data.rcvp, data.rcvb, data.sentp, data.sentb)]

\* strings.HasPrefix(payload, "new") on the texts of the model
HasPrefixNew(payload) ==
    payload.form = "text" /\ payload.text \in {"new", "new lifetime=600"}

\* msg.Payload == "deleted"
IsDeleted(payload) == payload.form = "text" /\ payload.text = "deleted"

\* a mutant of prometheusLabels: the label is taken from the last part of the
\* channel name, which differs between the messages of one allocation
prometheusLabelsByType(metadata) == [realm |-> metadata.messageType]

prometheusLabels(metadata) == [realm |-> metadata.realm]

-----------------------------------------------------------------------------
(* Allocation records: previousRates is <<>> for nil and <<rates>> for a   *)
(* pointer to rates.                                                       *)

Allocation(previousRates, lastMetricTimestamp) ==
    [previousRates |-> previousRates, lastMetricTimestamp |-> lastMetricTimestamp]

Tracked(name) == name \in DOMAIN allocations

\* allocations[name] = value
MapSet(map, name, value) ==
    [n \in DOMAIN map \cup {name} |-> IF n = name THEN value ELSE map[n]]

\* delete(allocations, name)
MapDelete(map, name) == [n \in DOMAIN map \ {name} |-> map[n]]

-----------------------------------------------------------------------------
(* The body of the watchTraffic loop, one action per path through it.      *)

\* the four rates of a sample over elapsed seconds (lines 193-197)
Rates(trafficMetric, elapsed) ==
    TrafficMetric(FDiv(trafficMetric.rcvp, elapsed),
                  FDiv(trafficMetric.rcvb, elapsed),
                  FDiv(trafficMetric.sentp, elapsed),
                  FDiv(trafficMetric.sentb, elapsed))

GaugeOrder ==
    <<"receivedPacketRateHistogauge", "receivedByteRateHistogauge",
      "sentPacketRateHistogauge", "sentByteRateHistogauge">>

Call(kind, gauge, labels, v, o) ==
    [kind |-> kind, gauge |-> gauge, labels |-> labels, v |-> v, o |-> o]

\* a mutant of TrafficCalls: Add is called whether or not previousRates is set
TrafficCallsAlwaysAdd(labels, allocation, rates) ==
    [i \in 1..4 |->
        Call("Add", GaugeOrder[i], labels,
             rates[GaugeField(GaugeOrder[i])], rates[GaugeField(GaugeOrder[i])])]

\* the histogauge calls of a traffic sample for a tracked allocation
TrafficCalls(labels, allocation, rates) ==
    IF allocation.previousRates # <<>>
    THEN [i \in 1..4 |->
            Call("Replace", GaugeOrder[i], labels,
                 rates[GaugeField(GaugeOrder[i])],
                 allocation.previousRates[1][GaugeField(GaugeOrder[i])])]
    ELSE [i \in 1..4 |->
            Call("Add", GaugeOrder[i], labels,
                 rates[GaugeField(GaugeOrder[i])],
                 rates[GaugeField(GaugeOrder[i])])]

\* a mutant of DeletedCalls: Remove is called for every tracked allocation,
\* with rate 0 when it has no previous rates
DeletedCallsAlways(labels, allocation) ==
    [i \in 1..4 |->
        Call("Remove", GaugeOrder[i], labels,
             IF allocation.previousRates # <<>>
             THEN allocation.previousRates[1][GaugeField(GaugeOrder[i])]
             ELSE FloatOf(0),
             FloatOf(0))]

\* a mutant of DeletedCalls: no Remove is called when an allocation is deleted
DeletedCallsNever(labels, allocation) == <<>>

\* the histogauge calls of a "deleted" status for a tracked allocation
DeletedCalls(labels, allocation) ==
    IF allocation.previousRates # <<>>
    THEN [i \in 1..4 |->
            Call("Remove", GaugeOrder[i], labels,
                 allocation.previousRates[1][GaugeField(GaugeOrder[i])],
                 allocation.previousRates[1][GaugeField(GaugeOrder[i])])]
    ELSE <<>>

ApplyCall(hgs, c) ==
    [hgs EXCEPT ![c.gauge] =
        CASE c.kind = "Add" -> Add(@, c.labels, c.v)
          [] c.kind = "Remove" -> Remove(@, c.labels, c.v)
          [] c.kind = "Replace" -> Replace(@, c.labels, c.v, c.o)]

RECURSIVE ApplyCalls(_, _)
ApplyCalls(hgs, cs) ==
    IF cs = <<>> THEN hgs ELSE ApplyCalls(ApplyCall(hgs, Head(cs)), Tail(cs))

\* lines 184-187
AddToCounters(cs, labels, trafficMetric) ==
    [c \in Counters |-> CounterAdd(cs[c], labels, trafficMetric[c])]

Handled(kind, msg, metadata, elapsed) ==
    [kind |-> kind, msg |-> msg, realm |-> metadata.realm,
     allocationName |-> metadata.allocationName, elapsed |-> elapsed]

\* the number of traffic samples handled for name since it was last deleted
\* (3 stands for 3 or more)
SamplesOf(ls, name) == IF name \in DOMAIN ls THEN ls[name].samples ELSE 0

NoLabels == [realm |-> ""]

\* one more sample in this life of the allocation: the sample, the seconds
\* since the sample before it (-1 for the first), the labels of the Add made
\* in this life (cs are the calls of the sample), how the life of the same
\* name before this one ended ("" if there was none), and the sample before
\* this one with its seconds (<<>> for the first)
CountSample(name, trafficMetric, elapsed, cs) ==
    MapSet(lives, name,
           [samples |-> IF SamplesOf(lives, name) >= 3 THEN 3
                        ELSE SamplesOf(lives, name) + 1,
            metric |-> trafficMetric, elapsed |-> elapsed,
            labels |-> IF cs # <<>> /\ cs[1].kind = "Add" THEN cs[1].labels
                       ELSE IF name \in DOMAIN lives THEN lives[name].labels
                       ELSE NoLabels,
            ended |-> IF name \in DOMAIN lives THEN lives[name].ended ELSE "",
            before |-> IF SamplesOf(lives, name) >= 1
                       THEN <<lives[name].metric, lives[name].elapsed>>
                       ELSE <<>>])

\* the life of a tracked allocation ends, with or without previous rates:
\* no samples from now on
EndLife(name) ==
    IF name \in DOMAIN allocations
    THEN MapSet(lives, name,
                [samples |-> 0, metric |-> TrafficMetric(0, 0, 0, 0),
                 elapsed |-> -1, labels |-> NoLabels,
                 ended |-> IF allocations[name].previousRates # <<>>
                           THEN "rated" ELSE "unrated",
                 before |-> <<>>])
    ELSE lives

\* the sums of the four fields over the traffic messages of each realm whose
\* channel and payload have the expected form, once msg has arrived
TotalsAfter(msg) ==
    LET metadata == parseKeyName(msg.Channel)
    IN  IF /\ ~metadata.err
           /\ metadata.messageType = "traffic"
           /\ msg.Payload.form = "metric"
        THEN [totals EXCEPT ![metadata.realm] =
                 [c \in Counters |-> @[c] + msg.Payload[c]]]
        ELSE totals

AnyNaN(rates) == \E c \in Counters : IsNaN(rates[c])

\* parseKeyName fails: the message is skipped
BadKeyName(msg) ==
    LET metadata == parseKeyName(msg.Channel)
    IN  /\ proc.workers > 0
        /\ steps < MaxEvents
        /\ metadata.err
        /\ last' = Handled("bad-key", msg, metadata, -1)
        /\ pre' = Snapshot
        /\ calls' = <<>>
        /\ steps' = steps + 1
        /\ totals' = TotalsAfter(msg)
        /\ UNCHANGED <<histogauges, allocations, allocationGauge, counters,
                       clock, lives, held, flags, proc>>

\* a mutant of BadTrafficPayload: the counters are touched before the payload
\* is parsed, with the zero metric parseTrafficMetric returns on an error
BadTrafficPayloadCounts(msg) ==
    LET metadata == parseKeyName(msg.Channel)
        labels == prometheusLabels(metadata)
    IN  /\ proc.workers > 0
        /\ steps < MaxEvents
        /\ ~metadata.err
        /\ metadata.messageType = "traffic"
        /\ parseTrafficMetric(msg.Payload).err
        /\ counters' = AddToCounters(counters, labels,
                                     parseTrafficMetric(msg.Payload).metric)
        /\ last' = Handled("bad-payload", msg, metadata, -1)
        /\ pre' = Snapshot
        /\ calls' = <<>>
        /\ steps' = steps + 1
        /\ totals' = TotalsAfter(msg)
        /\ UNCHANGED <<histogauges, allocations, allocationGauge,
                       clock, lives, held, flags, proc>>

\* a traffic message whose payload does not parse: skipped
BadTrafficPayload(msg) ==
    LET metadata == parseKeyName(msg.Channel)
    IN  /\ proc.workers > 0
        /\ steps < MaxEvents
        /\ ~metadata.err
        /\ metadata.messageType = "traffic"
        /\ parseTrafficMetric(msg.Payload).err
        /\ last' = Handled("bad-payload", msg, metadata, -1)
        /\ pre' = Snapshot
        /\ calls' = <<>>
        /\ steps' = steps + 1
        /\ totals' = TotalsAfter(msg)
        /\ UNCHANGED <<histogauges, allocations, allocationGauge, counters,
                       clock, lives, held, flags, proc>>

\* a mutant of TrafficUntracked: the first sample is taken as a rate over one
\* second and added to the histogauges
TrafficUntrackedAdds(msg, now) ==
    LET metadata == parseKeyName(msg.Channel)
        labels == prometheusLabels(metadata)
        parsed == parseTrafficMetric(msg.Payload)
        rates == Rates(parsed.metric, 1)
        cs == TrafficCalls(labels, Allocation(<<>>, now), rates)
    IN  /\ proc.workers > 0
        /\ steps < MaxEvents
        /\ ~metadata.err
        /\ metadata.messageType = "traffic"
        /\ ~parsed.err
        /\ ~Tracked(metadata.allocationName)
        /\ now >= clock
        /\ counters' = AddToCounters(counters, labels, parsed.metric)
        /\ histogauges' = ApplyCalls(histogauges, cs)
        /\ allocations' = MapSet(allocations, metadata.allocationName,
                                 Allocation(<<rates>>, now))
        /\ lives' = CountSample(metadata.allocationName, parsed.metric, -1, cs)
        /\ last' = Handled("traffic", msg, metadata, -1)
        /\ pre' = Snapshot
        /\ calls' = cs
        /\ clock' = now
        /\ steps' = steps + 1
        /\ totals' = TotalsAfter(msg)
        /\ UNCHANGED <<allocationGauge, held, flags, proc>>

\* a mutant of TrafficUntracked: the sample of a name that is not tracked is
\* not added to the counters
TrafficUntrackedUncounted(msg, now) ==
    LET metadata == parseKeyName(msg.Channel)
        parsed == parseTrafficMetric(msg.Payload)
    IN  /\ proc.workers > 0
        /\ steps < MaxEvents
        /\ ~metadata.err
        /\ metadata.messageType = "traffic"
        /\ ~parsed.err
        /\ ~Tracked(metadata.allocationName)
        /\ now >= clock
        /\ allocations' = MapSet(allocations, metadata.allocationName,
                                 Allocation(<<>>, now))
        /\ lives' = CountSample(metadata.allocationName, parsed.metric, -1, <<>>)
        /\ last' = Handled("traffic", msg, metadata, -1)
        /\ pre' = Snapshot
        /\ calls' = <<>>
        /\ clock' = now
        /\ steps' = steps + 1
        /\ totals' = TotalsAfter(msg)
        /\ UNCHANGED <<histogauges, allocationGauge, counters, held, flags, proc>>

\* a traffic message for a name that is not in allocations; now is the
\* reading of time.Now() (line 213), at or after the latest one
TrafficUntracked(msg, now) ==
    LET metadata == parseKeyName(msg.Channel)
        labels == prometheusLabels(metadata)
        parsed == parseTrafficMetric(msg.Payload)
    IN  /\ proc.workers > 0
        /\ steps < MaxEvents
        /\ ~metadata.err
        /\ metadata.messageType = "traffic"
        /\ ~parsed.err
        /\ ~Tracked(metadata.allocationName)
        /\ now >= clock
        /\ counters' = AddToCounters(counters, labels, parsed.metric)
        /\ allocations' = MapSet(allocations, metadata.allocationName,
                                 Allocation(<<>>, now))
        /\ lives' = CountSample(metadata.allocationName, parsed.metric, -1, <<>>)
        /\ last' = Handled("traffic", msg, metadata, -1)
        /\ pre' = Snapshot
        /\ calls' = <<>>
        /\ clock' = now
        /\ steps' = steps + 1
        /\ totals' = TotalsAfter(msg)
        /\ UNCHANGED <<histogauges, allocationGauge, held, flags, proc>>

\* a traffic message for a name in allocations; now is the reading of the
\* first time.Now() (line 191), at or after the latest one, and later that
\* of the second (line 211), at or after the first
TrafficTracked(msg, now, later) ==
    LET metadata == parseKeyName(msg.Channel)
        labels == prometheusLabels(metadata)
        parsed == parseTrafficMetric(msg.Payload)
    IN  /\ proc.workers > 0
        /\ steps < MaxEvents
        /\ ~metadata.err
        /\ metadata.messageType = "traffic"
        /\ ~parsed.err
        /\ Tracked(metadata.allocationName)
        /\ now >= clock
        /\ later >= now
        /\ LET allocation == allocations[metadata.allocationName]
               elapsed == now - allocation.lastMetricTimestamp
               rates == Rates(parsed.metric, elapsed)
               cs == TrafficCalls(labels, allocation, rates)
           IN  /\ counters' = AddToCounters(counters, labels, parsed.metric)
               /\ histogauges' = ApplyCalls(histogauges, cs)
               /\ allocations' = MapSet(allocations, metadata.allocationName,
                                        Allocation(<<rates>>, later))
               /\ calls' = cs
               /\ flags' = [flags EXCEPT !.nan = @ \/ AnyNaN(rates),
                                         !.zeroElapsed = @ \/ elapsed = 0]
               /\ last' = Handled("traffic", msg, metadata, elapsed)
               /\ lives' = CountSample(metadata.allocationName, parsed.metric,
                                       elapsed, cs)
        /\ clock' = later
        /\ pre' = Snapshot
        /\ steps' = steps + 1
        /\ totals' = TotalsAfter(msg)
        /\ UNCHANGED <<allocationGauge, held, proc>>

\* a mutant of StatusNew: the allocation is created, without previous rates,
\* when its "new" status arrives
StatusNewCreates(msg) ==
    LET metadata == parseKeyName(msg.Channel)
        labels == prometheusLabels(metadata)
    IN  /\ proc.workers > 0
        /\ steps < MaxEvents
        /\ ~metadata.err
        /\ metadata.messageType = "status"
        /\ HasPrefixNew(msg.Payload)
        /\ allocationGauge' = Inc(allocationGauge, labels)
        /\ allocations' = MapSet(allocations, metadata.allocationName,
                                 Allocation(<<>>, clock))
        /\ last' = Handled("new", msg, metadata, -1)
        /\ pre' = Snapshot
        /\ calls' = <<>>
        /\ steps' = steps + 1
        /\ totals' = TotalsAfter(msg)
        /\ UNCHANGED <<histogauges, counters, clock, lives, held, flags, proc>>

\* a status message whose payload starts with "new"
StatusNew(msg) ==
    LET metadata == parseKeyName(msg.Channel)
        labels == prometheusLabels(metadata)
    IN  /\ proc.workers > 0
        /\ steps < MaxEvents
        /\ ~metadata.err
        /\ metadata.messageType = "status"
        /\ HasPrefixNew(msg.Payload)
        /\ allocationGauge' = Inc(allocationGauge, labels)
        /\ last' = Handled("new", msg, metadata, -1)
        /\ pre' = Snapshot
        /\ calls' = <<>>
        /\ steps' = steps + 1
        /\ totals' = TotalsAfter(msg)
        /\ UNCHANGED <<histogauges, allocations, counters, clock, lives,
                       held, flags, proc>>

\* a mutant of StatusDeleted: the Remove calls are made but the entry stays
\* in allocations
StatusDeletedKeeps(msg) ==
    LET metadata == parseKeyName(msg.Channel)
        labels == prometheusLabels(metadata)
        name == metadata.allocationName
        cs == IF Tracked(name) THEN DeletedCalls(labels, allocations[name])
              ELSE <<>>
    IN  /\ proc.workers > 0
        /\ steps < MaxEvents
        /\ ~metadata.err
        /\ metadata.messageType = "status"
        /\ ~HasPrefixNew(msg.Payload)
        /\ IsDeleted(msg.Payload)
        /\ allocationGauge' = Dec(allocationGauge, labels)
        /\ histogauges' = ApplyCalls(histogauges, cs)
        /\ lives' = EndLife(name)
        /\ calls' = cs
        /\ last' = Handled("deleted", msg, metadata, -1)
        /\ pre' = Snapshot
        /\ steps' = steps + 1
        /\ totals' = TotalsAfter(msg)
        /\ UNCHANGED <<allocations, counters, clock, held, flags, proc>>

\* a status message whose payload is "deleted"
StatusDeleted(msg) ==
    LET metadata == parseKeyName(msg.Channel)
        labels == prometheusLabels(metadata)
        name == metadata.allocationName
        cs == IF Tracked(name) THEN DeletedCalls(labels, allocations[name])
              ELSE <<>>
    IN  /\ proc.workers > 0
        /\ steps < MaxEvents
        /\ ~metadata.err
        /\ metadata.messageType = "status"
        /\ ~HasPrefixNew(msg.Payload)
        /\ IsDeleted(msg.Payload)
        /\ allocationGauge' = Dec(allocationGauge, labels)
        /\ histogauges' = ApplyCalls(histogauges, cs)
        /\ allocations' = MapDelete(allocations, name)
        /\ lives' = EndLife(name)
        /\ calls' = cs
        /\ last' = Handled("deleted", msg, metadata, -1)
        /\ pre' = Snapshot
        /\ steps' = steps + 1
        /\ totals' = TotalsAfter(msg)
        /\ UNCHANGED <<counters, clock, held, flags, proc>>

\* any other message type, or any other status payload: nothing is done
Ignored(msg) ==
    LET metadata == parseKeyName(msg.Channel)
    IN  /\ proc.workers > 0
        /\ steps < MaxEvents
        /\ ~metadata.err
        /\ \/ metadata.messageType \notin {"traffic", "status"}
           \/ /\ metadata.messageType = "status"
              /\ ~HasPrefixNew(msg.Payload)
              /\ ~IsDeleted(msg.Payload)
        /\ last' = Handled("ignored", msg, metadata, -1)
        /\ pre' = Snapshot
        /\ calls' = <<>>
        /\ steps' = steps + 1
        /\ totals' = TotalsAfter(msg)
        /\ UNCHANGED <<histogauges, allocations, allocationGauge, counters,
                       clock, lives, held, flags, proc>>

-----------------------------------------------------------------------------
(* main: the scan of the status keys that exist at startup, and the start *)
(* of the goroutine that runs watchTraffic.                                *)

\* the loop over keys (lines 249-256), a key that parses
ScanKey ==
    /\ proc.pc = "scan"
    /\ proc.keys # <<>>
    /\ LET metadata == parseKeyName(Head(proc.keys))
       IN  /\ ~metadata.err
           /\ allocationGauge' = Inc(allocationGauge, prometheusLabels(metadata))
    /\ proc' = [proc EXCEPT !.keys = Tail(@)]
    /\ last' = [kind |-> "scan", key |-> Head(proc.keys)]
    /\ pre' = Snapshot
    /\ calls' = <<>>
    /\ UNCHANGED <<histogauges, allocations, counters, clock, lives, held,
                   flags, steps, totals>>

\* the loop over keys, a key that does not parse: skipped
ScanBadKey ==
    /\ proc.pc = "scan"
    /\ proc.keys # <<>>
    /\ parseKeyName(Head(proc.keys)).err
    /\ proc' = [proc EXCEPT !.keys = Tail(@)]
    /\ last' = [kind |-> "scan", key |-> Head(proc.keys)]
    /\ pre' = Snapshot
    /\ calls' = <<>>
    /\ UNCHANGED <<histogauges, allocations, allocationGauge, counters, clock,
                   lives, held, flags, steps, totals>>

\* a mutant of StartWatch: the goroutine is started inside the loop over keys
StartWatchEarly ==
    /\ proc.pc = "scan"
    /\ proc.workers < 2
    /\ proc' = [proc EXCEPT !.pc = IF proc.keys = <<>> THEN "serve" ELSE "scan",
                            !.workers = @ + 1]
    /\ last' = [kind |-> "go"]
    /\ pre' = Snapshot
    /\ calls' = <<>>
    /\ UNCHANGED <<histogauges, allocations, allocationGauge, counters, clock,
                   lives, held, flags, steps, totals>>

\* go watchTraffic(client) (line 260), after the loop over keys; main goes
\* on to serve /metrics, which only reads
StartWatch ==
    /\ proc.pc = "scan"
    /\ proc.keys = <<>>
    /\ proc' = [proc EXCEPT !.pc = "serve", !.workers = @ + 1]
    /\ last' = [kind |-> "go"]
    /\ pre' = Snapshot
    /\ calls' = <<>>
    /\ UNCHANGED <<histogauges, allocations, allocationGauge, counters, clock,
                   lives, held, flags, steps, totals>>

Next ==
    \/ ScanKey
    \/ ScanBadKey
    \/ StartWatch
    \/ \E msg \in Messages : BadKeyName(msg)
    \/ \E msg \in Messages : BadTrafficPayload(msg)
    \/ \E msg \in Messages, now \in 0..MaxClock : TrafficUntracked(msg, now)
    \/ \E msg \in Messages, now \in 0..MaxClock, later \in 0..MaxClock :
          TrafficTracked(msg, now, later)
    \/ \E msg \in Messages : StatusNew(msg)
    \/ \E msg \in Messages : StatusDeleted(msg)
    \/ \E msg \in Messages : Ignored(msg)

-----------------------------------------------------------------------------
(* The state when main starts, and the specifications.                     *)

NoCall == [kind |-> "none"]

Init ==
    /\ histogauges = [g \in Gauges |-> NewHistogauge(GaugeBuckets(g))]
    /\ allocations = [x \in {} |-> 0]
    /\ lives = [x \in {} |-> 0]
    /\ allocationGauge = EmptyVec
    /\ counters = [c \in Counters |-> EmptyVec]
    /\ clock = 0
    /\ last = NoCall
    /\ pre = Snapshot
    /\ calls = <<>>
    /\ held = Held0
    /\ flags = Flags0
    /\ steps = 0
    /\ totals = [r \in Realms |-> [c \in Counters |-> 0]]
    /\ proc = [pc |-> "scan", keys |-> StartupKeys, workers |-> 0]

Spec == Init /\ [][Next]_vars

\* the same program with the messages and clock readings of the end-to-end
\* scenario
NextE2E ==
    \/ ScanKey
    \/ ScanBadKey
    \/ StartWatch
    \/ \E msg \in E2EMessages, now \in E2ETimes : TrafficUntracked(msg, now)
    \/ \E msg \in E2EMessages, now \in E2ETimes, later \in E2ETimes :
          TrafficTracked(msg, now, later)
    \/ \E msg \in E2EMessages : StatusNew(msg)
    \/ \E msg \in E2EMessages : StatusDeleted(msg)

SpecE2E == Init /\ [][NextE2E]_vars

SpecHG == Init /\ [][NextHG]_vars

-----------------------------------------------------------------------------
(* Reading a histogauge.                                                   *)

\* the value a scrape shows for a series; a series never created shows none
\* and counts as a population of 0
Pop(vec, labels) == IF labels \in DOMAIN vec THEN vec[labels] ELSE 0

\* the population of threshold i / of the overflow bucket of histogauge h
Bucket(h, labels, i) ==
    Pop(h.gaugeVec, WithLe(labels, bucketName(h.buckets[i])))
Overflow(h, labels) == Pop(h.gaugeVec, WithLe(labels, "+Inf"))

Thresholds(h) == 1..Len(h.buckets)

SumOver(f) ==
    LET RECURSIVE Sum(_)
        Sum(S) == IF S = {} THEN 0
                  ELSE LET x == CHOOSE y \in S : TRUE IN f[x] + Sum(S \ {x})
    IN  Sum(DOMAIN f)

HG == histogauges[HGGauge]
HGPre == pre.histogauges[HGGauge]

\* math.Min / math.Max
FMin(x, y) == IF IsNaN(x) \/ IsNaN(y) THEN NaN ELSE IF FLeq(x, y) THEN x ELSE y
FMax(x, y) == IF IsNaN(x) \/ IsNaN(y) THEN NaN ELSE IF FLeq(x, y) THEN y ELSE x

-----------------------------------------------------------------------------
(* Claims about the histogauge alone (SpecHG).                             *)

HGPopulationsRight ==
    \A l \in HGLabels :
        /\ \A i \in Thresholds(HG) : Bucket(HG, l, i) >= 0
        /\ Overflow(HG, l) = SumOver(held[l])

\* C1 as stated: while every Remove and Replace names a held value, no
\* threshold population is negative and the overflow population is the
\* number of values added and not removed
C1_AnyValues == flags.inContract => HGPopulationsRight

\* C1, amended: the same, as long as no value passed to the histogauge is NaN
C1_NoNaN == (flags.inContract /\ ~flags.nan) => HGPopulationsRight

C1_Witness ==
    /\ flags.inContract /\ ~flags.nan
    /\ last.kind = "Remove"
    /\ \E l \in HGLabels : SumOver(held[l]) >= 1

ReplaceIsRemoveThenAdd ==
    LET RemoveThenAdd ==
            Add(Remove(HGPre, last.labels, last.o), last.labels, last.v)
    IN
    /\ \A i \in Thresholds(HG) :
          Bucket(HG, last.labels, i) = Bucket(RemoveThenAdd, last.labels, i)
    /\ Overflow(HG, last.labels) = Overflow(HGPre, last.labels)
    /\ Overflow(RemoveThenAdd, last.labels) = Overflow(HGPre, last.labels)

\* C3 as stated: Replace(labels, b, a) leaves every threshold population as
\* Remove(labels, a) followed by Add(labels, b) does, for any a and b
C3_AnyValues == last.kind = "Replace" => ReplaceIsRemoveThenAdd

\* C3, amended: the same, for any a and b that are not NaN
C3_NoNaN ==
    (last.kind = "Replace" /\ ~IsNaN(last.v) /\ ~IsNaN(last.o))
        => ReplaceIsRemoveThenAdd

C3_Witness ==
    /\ last.kind = "Replace"
    /\ last.v = FloatOf(50) /\ last.o = FloatOf(120)
    /\ Bucket(HG, last.labels, 1) # Bucket(HGPre, last.labels, 1)

\* the change C4 gives threshold b of the label-set Replace was called with
C4_Delta(b) ==
    IF FLeq(FMin(last.o, last.v), b) /\ FLt(b, FMax(last.o, last.v))
    THEN IF FGt(last.v, last.o) THEN -1
         ELSE IF FLt(last.v, last.o) THEN 1 ELSE 0
    ELSE 0

\* C4: Replace(labels, new, old) with new != old decrements (new > old) or
\* increments (new < old) exactly the thresholds b with
\* min(old, new) <= b < max(old, new) of labels, and changes no other bucket
C4_ReplaceRange ==
    (last.kind = "Replace" /\ ~FEq(last.v, last.o)) =>
        \A l \in HGLabels :
            /\ \A i \in Thresholds(HG) :
                  Bucket(HG, l, i) =
                      Bucket(HGPre, l, i)
                      + (IF l = last.labels
                         THEN C4_Delta(FloatOf(HG.buckets[i])) ELSE 0)
            /\ Overflow(HG, l) = Overflow(HGPre, l)

C4_Witness ==
    /\ last.kind = "Replace"
    /\ last.v = FloatOf(100) /\ last.o = FloatOf(50)
    /\ Bucket(HG, last.labels, 1) = Bucket(HGPre, last.labels, 1) - 1
    /\ Bucket(HG, last.labels, 2) = Bucket(HGPre, last.labels, 2)

\* C5: Replace(labels, v, v) changes no bucket population
C5_ReplaceSame ==
    (last.kind = "Replace" /\ last.v = last.o) =>
        \A l \in HGLabels :
            /\ \A i \in Thresholds(HG) : Bucket(HG, l, i) = Bucket(HGPre, l, i)
            /\ Overflow(HG, l) = Overflow(HGPre, l)

C5_Witness ==
    /\ last.kind = "Replace"
    /\ last.v = FloatOf(50) /\ last.o = FloatOf(50)
    /\ Overflow(HG, last.labels) = 1

\* C6: Add(labels, value) adds 1 to exactly the thresholds b with
\* value <= b and to the overflow bucket, and afterwards every series of
\* labels exists
C6_Add ==
    last.kind = "Add" =>
        /\ \A i \in Thresholds(HG) :
              /\ WithLe(last.labels, bucketName(HG.buckets[i]))
                     \in DOMAIN HG.gaugeVec
              /\ Bucket(HG, last.labels, i) =
                     Bucket(HGPre, last.labels, i)
                     + (IF FLeq(last.v, FloatOf(HG.buckets[i])) THEN 1 ELSE 0)
        /\ WithLe(last.labels, "+Inf") \in DOMAIN HG.gaugeVec
        /\ Overflow(HG, last.labels) = Overflow(HGPre, last.labels) + 1
        /\ \A l \in HGLabels \ {last.labels} :
              /\ \A i \in Thresholds(HG) : Bucket(HG, l, i) = Bucket(HGPre, l, i)
              /\ Overflow(HG, l) = Overflow(HGPre, l)

\* the first call on a label-set: no series of it existed before
C6_Witness ==
    /\ last.kind = "Add"
    /\ last.v = FloatOf(100)
    /\ \A k \in DOMAIN HGPre.gaugeVec : k.realm # last.labels.realm
    /\ Bucket(HG, last.labels, 1) = 0
    /\ Bucket(HG, last.labels, 2) = 1

-----------------------------------------------------------------------------
(* Claims about the watchTraffic loop (Spec).                              *)

\* the realm in each allocation name
NameRealm ==
    [n \in Names |-> (CHOOSE k \in AllocationKeys : Join(k) = n)[3]]

RealmOfName(name) == NameRealm[name]

LabelsOf(realm) == [realm |-> realm]

HasRates(as, name) == name \in DOMAIN as /\ as[name].previousRates # <<>>

\* the rate stored for name that gauge g tracks
StoredRate(as, name, g) == as[name].previousRates[1][GaugeField(g)]

TrackedIn(realm) == {n \in DOMAIN allocations : RealmOfName(n) = realm}
RatedIn(realm) == {n \in TrackedIn(realm) : HasRates(allocations, n)}

ThresholdsCountRated ==
    \A r \in Realms :
        LET rated == RatedIn(r)
        IN  \A g \in Gauges :
                \A i \in Thresholds(histogauges[g]) :
                    Bucket(histogauges[g], LabelsOf(r), i) =
                        Cardinality({n \in rated :
                            FLeq(StoredRate(allocations, n, g),
                                 FloatOf(histogauges[g].buckets[i]))})

\* C2 as stated: the overflow population of every rate gauge and realm is
\* the number of allocations tracked in the realm, and every threshold
\* population is the number of them whose rate is at most the threshold
C2_CountsTracked ==
    /\ \A g \in Gauges, r \in Realms :
          Overflow(histogauges[g], LabelsOf(r)) = Cardinality(TrackedIn(r))
    /\ ThresholdsCountRated

\* C2, amended: as long as no rate computed was NaN, the overflow population
\* is the number of allocations tracked in the realm that have previous
\* rates, and every threshold population is the number of those whose rate
\* is at most the threshold
C2_CountsRated ==
    ~flags.nan =>
        /\ \A g \in Gauges, r \in Realms :
              Overflow(histogauges[g], LabelsOf(r)) = Cardinality(RatedIn(r))
        /\ ThresholdsCountRated

C2_Witness ==
    /\ ~flags.nan
    /\ Cardinality(RatedIn("r1")) = 2
    /\ Cardinality(TrackedIn("r1")) = 2
    /\ Bucket(histogauges["receivedPacketRateHistogauge"], LabelsOf("r1"), 2) = 2
    /\ Bucket(histogauges["receivedPacketRateHistogauge"], LabelsOf("r1"), 1) = 0

PopulationsUnchanged ==
    \A g \in Gauges, r \in Realms :
        /\ \A i \in Thresholds(histogauges[g]) :
              Bucket(histogauges[g], LabelsOf(r), i) =
                  Bucket(pre.histogauges[g], LabelsOf(r), i)
        /\ Overflow(histogauges[g], LabelsOf(r)) =
              Overflow(pre.histogauges[g], LabelsOf(r))

\* C7: the first traffic sample of a name that is not tracked adds its four
\* fields to the counters of its realm and creates the allocation without
\* previous rates; it makes no histogauge call and changes no population
C7_FirstSample ==
    (last.kind = "traffic" /\ last.allocationName \notin DOMAIN pre.allocations)
    =>  /\ \A c \in Counters :
              Pop(counters[c], LabelsOf(last.realm)) =
                  Pop(pre.counters[c], LabelsOf(last.realm)) + last.msg.Payload[c]
        /\ last.allocationName \in DOMAIN allocations
        /\ allocations[last.allocationName].previousRates = <<>>
        /\ calls = <<>>
        /\ PopulationsUnchanged

C7_Witness ==
    /\ last.kind = "traffic"
    /\ last.allocationName \notin DOMAIN pre.allocations
    /\ Overflow(histogauges["receivedPacketRateHistogauge"],
                LabelsOf(last.realm)) = 1
    /\ Pop(pre.counters["rcvp"], LabelsOf(last.realm)) > 0

\* the rate of the sample before the last one of name, from the message it
\* came in and the seconds that had elapsed
RateBefore(name, g) ==
    FDiv(pre.lives[name].metric[GaugeField(g)], pre.lives[name].elapsed)

\* the rate of the last sample
RateNow(g) == FDiv(last.msg.Payload[GaugeField(g)], last.elapsed)

\* C8: in each life of an allocation the first sample makes no histogauge
\* call, the second makes one Add per gauge with sample / elapsed, every
\* later one makes one Replace per gauge from the rate of the sample before
\* it, and a Remove is made only after the Add
C8_CallOrder ==
    /\ last.kind = "traffic" =>
          LET n == SamplesOf(lives, last.allocationName)
              labels == LabelsOf(last.realm)
          IN  /\ n = 1 => calls = <<>>
              /\ n = 2 =>
                    calls = [i \in 1..4 |->
                        Call("Add", GaugeOrder[i], labels,
                             RateNow(GaugeOrder[i]), RateNow(GaugeOrder[i]))]
              /\ n = 3 =>
                    calls = [i \in 1..4 |->
                        Call("Replace", GaugeOrder[i], labels,
                             RateNow(GaugeOrder[i]),
                             RateBefore(last.allocationName, GaugeOrder[i]))]
    /\ last.kind = "deleted" =>
          IF SamplesOf(pre.lives, last.allocationName) >= 2
          THEN calls = [i \in 1..4 |->
                   Call("Remove", GaugeOrder[i], LabelsOf(last.realm),
                        RateBefore(last.allocationName, GaugeOrder[i]),
                        RateBefore(last.allocationName, GaugeOrder[i]))]
          ELSE calls = <<>>
    /\ last.kind \notin {"traffic", "deleted"} => calls = <<>>

\* a third sample: Replace from the rate of the second
C8_Witness ==
    /\ last.kind = "traffic"
    /\ SamplesOf(pre.lives, last.allocationName) = 2
    /\ calls # <<>>
    /\ calls[1].kind = "Replace"
    /\ calls[1].v = FloatOf(100) /\ calls[1].o = FloatOf(60)

\* C9: a "deleted" status takes 1 off the allocation gauge of the realm; if
\* the allocation had previous rates, every rate gauge loses 1 in the
\* overflow bucket and in each threshold the stored rate is at most, and
\* nothing else; afterwards the allocation is not tracked
C9_Deleted ==
    last.kind = "deleted" =>
        /\ Pop(allocationGauge, LabelsOf(last.realm)) =
              Pop(pre.allocationGauge, LabelsOf(last.realm)) - 1
        /\ HasRates(pre.allocations, last.allocationName) =>
              \A g \in Gauges, r \in Realms :
                  LET here == IF r = last.realm THEN 1 ELSE 0
                      rate == StoredRate(pre.allocations, last.allocationName, g)
                  IN  /\ Overflow(histogauges[g], LabelsOf(r)) =
                            Overflow(pre.histogauges[g], LabelsOf(r)) - here
                      /\ \A i \in Thresholds(histogauges[g]) :
                            Bucket(histogauges[g], LabelsOf(r), i) =
                                Bucket(pre.histogauges[g], LabelsOf(r), i)
                                - (IF FLeq(rate, FloatOf(histogauges[g].buckets[i]))
                                   THEN here ELSE 0)
        /\ last.allocationName \notin DOMAIN allocations

C9_Witness ==
    /\ last.kind = "deleted"
    /\ HasRates(pre.allocations, last.allocationName)
    /\ StoredRate(pre.allocations, last.allocationName,
                  "receivedPacketRateHistogauge") = FloatOf(60)
    /\ Bucket(pre.histogauges["receivedPacketRateHistogauge"],
              LabelsOf(last.realm), 2) = 1
    /\ Bucket(histogauges["receivedPacketRateHistogauge"],
              LabelsOf(last.realm), 2) = 0

\* C10: a "deleted" status for a name that is not tracked, or is tracked
\* without previous rates, makes no histogauge call, changes no population
\* and no counter and takes 1 off the allocation gauge; whatever its
\* previous rates, a tracked allocation is removed from allocations
C10_DeletedWithoutRates ==
    last.kind = "deleted" =>
        /\ ~HasRates(pre.allocations, last.allocationName) =>
              /\ calls = <<>>
              /\ PopulationsUnchanged
              /\ counters = pre.counters
              /\ Pop(allocationGauge, LabelsOf(last.realm)) =
                    Pop(pre.allocationGauge, LabelsOf(last.realm)) - 1
        /\ allocations = MapDelete(pre.allocations, last.allocationName)

C10_Witness ==
    /\ last.kind = "deleted"
    /\ last.allocationName \in DOMAIN pre.allocations
    /\ pre.allocations[last.allocationName].previousRates = <<>>
    /\ last.allocationName \notin DOMAIN allocations

-----------------------------------------------------------------------------
(* Claims about messages that are dropped, the counters and 'new'.         *)

\* C11: a message whose channel name does not parse, or a traffic message
\* whose payload does not parse, changes nothing: the counters, the
\* allocation gauge, the histogauges and allocations are as they were, no
\* histogauge call is made, and the loop can take the next message
C11_DroppedWhole ==
    last.kind \in {"bad-key", "bad-payload"} =>
        /\ counters = pre.counters
        /\ allocationGauge = pre.allocationGauge
        /\ histogauges = pre.histogauges
        /\ allocations = pre.allocations
        /\ calls = <<>>
        /\ steps < MaxEvents => ENABLED Next

\* a traffic message with a payload that does not parse, for an allocation
\* that is tracked with rates in a realm whose counters are not zero
C11_Witness ==
    /\ last.kind = "bad-payload"
    /\ HasRates(allocations, last.allocationName)
    /\ Pop(counters["rcvp"], LabelsOf(last.realm)) > 0
    /\ Overflow(histogauges["receivedPacketRateHistogauge"],
                LabelsOf(last.realm)) = 1

\* C12: every traffic message that parses adds its four fields to the
\* counters of its realm, whatever is known of the allocation; so each
\* counter is the sum of its field over the traffic messages of the realm
\* that parsed, no counter ever decreases, and a status message leaves the
\* counters as they were
C12_CountersSum ==
    /\ \A c \in Counters, r \in Realms :
          /\ Pop(counters[c], LabelsOf(r)) = totals[r][c]
          /\ Pop(counters[c], LabelsOf(r)) >= Pop(pre.counters[c], LabelsOf(r))
    /\ last.kind = "traffic" =>
          \A c \in Counters :
              Pop(counters[c], LabelsOf(last.realm)) =
                  Pop(pre.counters[c], LabelsOf(last.realm)) + last.msg.Payload[c]
    /\ last.kind \in {"new", "deleted", "ignored"} => counters = pre.counters

\* the third sample of an allocation: its first came when it was not
\* tracked, its second when it was tracked without rates, and this one when
\* it was tracked with rates
C12_Witness ==
    /\ last.kind = "traffic"
    /\ SamplesOf(lives, last.allocationName) = 3
    /\ HasRates(pre.allocations, last.allocationName)
    /\ totals[last.realm]["rcvp"] >= 180
    /\ Pop(counters["rcvp"], LabelsOf(last.realm)) = totals[last.realm]["rcvp"]

\* the first traffic message of the allocation that the status message msg
\* is about
TrafficAfter(msg) ==
    Message(SubSeq(msg.Channel, 1, Len(msg.Channel) - 1) \o <<"traffic">>,
            Report1)

\* C13: a "new" status adds 1 to the allocation gauge of its realm and
\* changes nothing else: allocations, the counters and the histogauges are
\* as they were and no histogauge call is made; so a name that was not
\* tracked is still not tracked, and its next traffic sample is handled as
\* a first sample
C13_NewOnlyCounts ==
    last.kind = "new" =>
        /\ \A r \in Realms :
              Pop(allocationGauge, LabelsOf(r)) =
                  Pop(pre.allocationGauge, LabelsOf(r))
                  + (IF r = last.realm THEN 1 ELSE 0)
        /\ allocations = pre.allocations
        /\ counters = pre.counters
        /\ histogauges = pre.histogauges
        /\ calls = <<>>
        /\ (last.allocationName \notin DOMAIN pre.allocations /\ steps < MaxEvents)
              => ENABLED TrafficUntracked(TrafficAfter(last.msg), clock)

\* a "new" status for a name that is not tracked, in a realm whose gauge
\* the startup scan has set to 1
C13_Witness ==
    /\ last.kind = "new"
    /\ last.allocationName \notin DOMAIN allocations
    /\ Pop(pre.allocationGauge, LabelsOf(last.realm)) = 1
    /\ Pop(allocationGauge, LabelsOf(last.realm)) = 2
    /\ steps < MaxEvents

-----------------------------------------------------------------------------
(* Claims about the labels of an allocation and about whole lives.         *)

\* C14: the labels of an allocation do not change while it lives: every
\* Replace and the Remove made for it carry the labels of the Add that first
\* counted it, and these are the realm that its name contains
C14_SameLabels ==
    /\ last.kind \in {"traffic", "deleted"} =>
          \A i \in DOMAIN calls :
              calls[i].kind \in {"Replace", "Remove"} =>
                  calls[i].labels = pre.lives[last.allocationName].labels
    /\ \A n \in DOMAIN allocations :
          HasRates(allocations, n) => lives[n].labels = LabelsOf(RealmOfName(n))

\* the Remove of an allocation that was counted by an Add and moved by a
\* Replace
C14_Witness ==
    /\ last.kind = "deleted"
    /\ SamplesOf(pre.lives, last.allocationName) = 3
    /\ calls # <<>>
    /\ calls[1].kind = "Remove"
    /\ calls[1].labels = LabelsOf("r1")
    /\ pre.lives[last.allocationName].labels = LabelsOf("r1")

-----------------------------------------------------------------------------
(* The end-to-end scenario (SpecE2E).                                      *)

E2EName == Join(AllocationKey("r1", "u1", "a1"))

\* the populations of thresholds 50 and 100 and of the overflow bucket of
\* the received packet rate in realm r1
E2EPopulations(hgs) ==
    LET h == hgs["receivedPacketRateHistogauge"]
    IN  <<Bucket(h, LabelsOf("r1"), 1), Bucket(h, LabelsOf("r1"), 2),
          Overflow(h, LabelsOf("r1"))>>

\* the last message was a traffic sample of the allocation, its n-th, with
\* rcvp packets
E2ESample(n, rcvp) ==
    /\ last.kind = "traffic"
    /\ last.allocationName = E2EName
    /\ SamplesOf(pre.lives, E2EName) = n - 1
    /\ last.msg.Payload.rcvp = rcvp

\* C15: with the allocation the only one of its realm, its first sample
\* leaves the populations of thresholds 50, 100 and overflow at 0, 0, 0; a
\* second sample of 600 packets after 10 s makes them 0, 1, 1; a third of
\* 400 packets after another 10 s makes them 1, 1, 1; and the "deleted"
\* status after it makes them 0, 0, 0 and the allocation gauge one lower
C15_Scenario ==
    /\ packetRateBuckets[1] = 50 /\ packetRateBuckets[2] = 100
    /\ (last.kind = "traffic" /\ last.allocationName = E2EName
        /\ SamplesOf(lives, E2EName) = 1)
       => /\ E2EPopulations(histogauges) = <<0, 0, 0>>
          /\ PopulationsUnchanged
    /\ (E2ESample(2, 600) /\ last.elapsed = 10)
       => E2EPopulations(histogauges) = <<0, 1, 1>>
    /\ (/\ E2ESample(3, 400) /\ last.elapsed = 10
        /\ pre.lives[E2EName].metric.rcvp = 600
        /\ pre.lives[E2EName].elapsed = 10)
       => E2EPopulations(histogauges) = <<1, 1, 1>>
    /\ (/\ last.kind = "deleted" /\ last.allocationName = E2EName
        /\ SamplesOf(pre.lives, E2EName) = 3
        /\ pre.lives[E2EName].metric.rcvp = 400
        /\ pre.lives[E2EName].elapsed = 10)
       => /\ E2EPopulations(histogauges) = <<0, 0, 0>>
          /\ Pop(allocationGauge, LabelsOf("r1")) =
                Pop(pre.allocationGauge, LabelsOf("r1")) - 1

\* the end of the scenario: four messages have been handled, the last is
\* the "deleted" status, the one before it the sample of 400 packets after
\* 10 s, and the one before that the sample of 600 packets after 10 s
C15_Witness ==
    /\ steps = 4
    /\ last.kind = "deleted" /\ last.allocationName = E2EName
    /\ SamplesOf(pre.lives, E2EName) = 3
    /\ pre.lives[E2EName].metric.rcvp = 400
    /\ pre.lives[E2EName].elapsed = 10
    /\ pre.lives[E2EName].before[1].rcvp = 600
    /\ pre.lives[E2EName].before[2] = 10
    /\ E2EPopulations(pre.histogauges) = <<1, 1, 1>>
    /\ E2EPopulations(histogauges) = <<0, 0, 0>>
    /\ Pop(allocationGauge, LabelsOf("r1")) = 0

-----------------------------------------------------------------------------
(* Claims about rates over zero seconds and about the order of the work.   *)

\* a field divided by zero seconds
OverZero(x) == IF x > 0 THEN PosInf ELSE NaN

\* C16: a traffic sample of a tracked allocation that arrives zero seconds
\* after the sample before it is handled like any other: its fields are
\* added to the counters, its rates, +Inf for a positive field and NaN for a
\* zero field, are passed to Add or Replace and stored as the previous
\* rates, and they are the old values of the next Replace or Remove
C16_ZeroElapsed ==
    /\ (last.kind = "traffic" /\ last.elapsed = 0) =>
          /\ Len(calls) = 4
          /\ \A i \in 1..4 :
                /\ calls[i].kind =
                      IF HasRates(pre.allocations, last.allocationName)
                      THEN "Replace" ELSE "Add"
                /\ calls[i].gauge = GaugeOrder[i]
                /\ calls[i].v = OverZero(last.msg.Payload[GaugeField(GaugeOrder[i])])
          /\ \A c \in Counters :
                /\ StoredRate(allocations, last.allocationName,
                              CHOOSE g \in Gauges : GaugeField(g) = c)
                      = OverZero(last.msg.Payload[c])
                /\ Pop(counters[c], LabelsOf(last.realm)) =
                      Pop(pre.counters[c], LabelsOf(last.realm))
                      + last.msg.Payload[c]
    /\ (/\ last.kind \in {"traffic", "deleted"}
        /\ SamplesOf(pre.lives, last.allocationName) >= 2
        /\ pre.lives[last.allocationName].elapsed = 0) =>
          /\ Len(calls) = 4
          /\ \A i \in 1..4 :
                /\ calls[i].kind = IF last.kind = "traffic" THEN "Replace"
                                   ELSE "Remove"
                /\ calls[i].o = OverZero(pre.lives[last.allocationName]
                                            .metric[GaugeField(GaugeOrder[i])])

\* two samples in a row after zero seconds: a Replace from +Inf to +Inf and
\* one from NaN to NaN
C16_Witness ==
    /\ last.kind = "traffic" /\ last.elapsed = 0
    /\ SamplesOf(pre.lives, last.allocationName) >= 2
    /\ pre.lives[last.allocationName].elapsed = 0
    /\ calls[1].kind = "Replace" /\ calls[1].v = PosInf /\ calls[1].o = PosInf
    /\ calls[3].kind = "Replace" /\ calls[3].v = NaN /\ calls[3].o = NaN
    /\ allocations[last.allocationName].previousRates[1].sentp = NaN

\* the kinds of last that a message handled by watchTraffic leaves
HandledKinds == {"bad-key", "bad-payload", "traffic", "new", "deleted", "ignored"}

\* C17: the state is written by main while it scans the keys and, after
\* that, by the one goroutine that runs watchTraffic, one message at a
\* time: at most one such goroutine exists, it exists only once the scan has
\* ended, every message was handled by it, and until it exists nothing but
\* the allocation gauge has been written
C17_OneWriter ==
    /\ proc.workers <= 1
    /\ proc.workers = 1 => (proc.pc = "serve" /\ proc.keys = <<>>)
    /\ (steps > 0 \/ last.kind \in HandledKinds) => proc.workers = 1
    /\ last.kind = "scan" =>
          /\ proc.workers = 0
          /\ histogauges = pre.histogauges
          /\ counters = pre.counters
          /\ allocations = pre.allocations
    /\ proc.workers = 0 =>
          /\ steps = 0
          /\ DOMAIN allocations = {}
          /\ \A c \in Counters : DOMAIN counters[c] = {}
          /\ \A g \in Gauges : DOMAIN histogauges[g].gaugeVec = {}

\* the second message handled by watchTraffic, after a scan that has
\* counted one allocation in realm r1 and skipped one key
C17_Witness ==
    /\ steps = 2
    /\ last.kind = "traffic"
    /\ proc.workers = 1 /\ proc.pc = "serve" /\ proc.keys = <<>>
    /\ Pop(allocationGauge, LabelsOf("r1")) = 1
    /\ DOMAIN allocations # {}

-----------------------------------------------------------------------------
(* Claims about the populations after any sequence of messages.            *)

\* C18: while every rate was computed over a positive number of seconds,
\* for every rate gauge and realm the overflow population is the number of
\* entries of allocations in the realm that have previous rates (an entry
\* without them is counted in no bucket), the population of every threshold
\* is the number of those whose stored rate is at most the threshold, and no
\* population is negative
C18_PositiveElapsed ==
    ~flags.zeroElapsed =>
        /\ \A g \in Gauges, r \in Realms :
              /\ Overflow(histogauges[g], LabelsOf(r)) = Cardinality(RatedIn(r))
              /\ Overflow(histogauges[g], LabelsOf(r)) >= 0
              /\ \A i \in Thresholds(histogauges[g]) :
                    Bucket(histogauges[g], LabelsOf(r), i) >= 0
        /\ ThresholdsCountRated

\* realm r1 holds an allocation with a rate of 30 packets a second and one
\* without rates
C18_Witness ==
    /\ ~flags.zeroElapsed
    /\ Cardinality(TrackedIn("r1")) = 2
    /\ Cardinality(RatedIn("r1")) = 1
    /\ \E n \in RatedIn("r1") :
          StoredRate(allocations, n, "receivedPacketRateHistogauge") = FloatOf(30)
    /\ E2EPopulations(histogauges) = <<1, 1, 1>>

\* a life of the name of the last message has ended before that message
EndedBefore ==
    /\ last.allocationName \in DOMAIN pre.lives
    /\ pre.lives[last.allocationName].ended # ""

C20_Cumulative ==
    ~flags.zeroElapsed =>
        \A g \in Gauges, r \in Realms :
            LET h == histogauges[g]
            IN  \A i \in Thresholds(h) :
                    /\ Bucket(h, LabelsOf(r), i) <= Overflow(h, LabelsOf(r))
                    /\ i < Len(h.buckets) =>
                          /\ h.buckets[i] < h.buckets[i + 1]
                          /\ Bucket(h, LabelsOf(r), i) <= Bucket(h, LabelsOf(r), i + 1)

\* two allocations of realm r1 with rates of 60 and 100 packets a second:
\* thresholds 50, 100 and overflow hold 0, 1, 2 and 2
C20_Witness ==
    /\ ~flags.zeroElapsed
    /\ last.kind = "traffic"
    /\ Bucket(histogauges["receivedPacketRateHistogauge"], LabelsOf("r1"), 1) = 0
    /\ Bucket(histogauges["receivedPacketRateHistogauge"], LabelsOf("r1"), 2) = 2
    /\ Overflow(histogauges["receivedPacketRateHistogauge"], LabelsOf("r1")) = 2
    /\ Bucket(histogauges["receivedByteRateHistogauge"], LabelsOf("r1"), 1) = 0
    /\ Bucket(histogauges["receivedByteRateHistogauge"], LabelsOf("r1"), 2) = 1
    /\ Bucket(histogauges["receivedByteRateHistogauge"], LabelsOf("r1"), 3) = 2

====
